---- MODULE Spec2Model ----
(***************************************************************************)
(* A model of lanoma (texture-notes-v2): the lexical path helpers          *)
(* (naively_normalize_path, relative_path_from), the Compile command's     *)
(* batch pipeline, the Master command's parallel compilation filter,       *)
(* Subject (new, name, path, split_subjects) and the Shelf with the        *)
(* directories it checks and creates.                                      *)
(*                                                                         *)
(* Representation of path text.  A path string is kept split at every '/': *)
(* a Text is a non-empty sequence of segments and a segment is a sequence  *)
(* of characters that holds no '/'.  Splitting at '/' is a bijection, so   *)
(* nothing of the string is lost:                                          *)
(*    ""      is  << <<>> >>              "/"    is  << <<>>, <<>> >>       *)
(*    "a/"    is  << <<"a">>, <<>> >>     "../a" is  << <<".",".">>, <<"a">> >> *)
(***************************************************************************)
EXTENDS Naturals, Integers, Sequences, FiniteSets, TLC

VARIABLES
    \* naively_normalize_path applied to one input, and again to its own output
    path, normalized, renormalized, npc,
    \* relative_path_from applied to a pair, and base re-joined with the result
    dst, base, rel, joined, rpc,
    \* the Compile command: its arguments, the position of its pipeline, the batch
    \* being compiled and what has been printed
    thread_count, envs, bi, cpc, pool, ustate, exit, compile_calls, printed,
    report,
    \* the Master command: the process-wide current directory and each subject's
    \* position in the parallel filter chain
    subjects, rayon_threads, skip_compilation, cwd, mpc, original_dir, ran_in,
    compiled_master_notes,
    \* a Subject built from a raw name, and what its accessors returned
    raw, subject, name_out, path_out, split_out, reslug_out, absorbed, renewed,
    spc,
    \* the filesystem, the Shelf over it and the outcome of the last operation
    dirs, files, shelf, cmd, ops, last

pathVars == <<path, normalized, renormalized, npc>>
relVars == <<dst, base, rel, joined, rpc>>
compileVars == <<thread_count, envs, bi, cpc, pool, ustate, exit, compile_calls,
                 printed, report>>
masterVars == <<subjects, rayon_threads, skip_compilation, cwd, mpc, original_dir,
                ran_in, compiled_master_notes>>
subjectVars == <<raw, subject, name_out, path_out, split_out, reslug_out, absorbed,
                 renewed, spc>>
shelfVars == <<dirs, files, shelf, cmd, ops, last>>
vars == <<pathVars, relVars, compileVars, masterVars, subjectVars, shelfVars>>

-----------------------------------------------------------------------------
(* Bounds *)

\* longest input of naively_normalize_path, in segments
MaxSegs == 4
\* longest dst and base of relative_path_from, in segments
MaxPairSegs == 3
\* most batches (CompilationEnvironment values) of one Compile command
MaxBatches == 2
\* most compilable units of one batch
MaxUnits == 3
\* largest --thread-count argument: one more than the largest batch
MaxThreads == MaxUnits + 1
\* most subjects of one Master command
MaxSubjects == 2
\* longest raw name of a Subject, in segments
MaxNameSegs == 3
\* most operations of one run on its shelf and its filesystem
MaxOps == 3

-----------------------------------------------------------------------------
(* Option<T> *)

None == [some |-> FALSE, val |-> <<>>]
Some(x) == [some |-> TRUE, val |-> x]

-----------------------------------------------------------------------------
(* Path text and std::path::Component *)

E == <<>>
Dot == <<".">>
DotDot == <<".", ".">>
A == <<"a">>
B == <<"b">>
C == <<"c">>

EmptyText == <<E>>
RootText == <<E, E>>

RootDir == [kind |-> "RootDir", s |-> E]
CurDir == [kind |-> "CurDir", s |-> Dot]
ParentDir == [kind |-> "ParentDir", s |-> DotDot]
Normal(seg) == [kind |-> "Normal", s |-> seg]

\* Path::is_absolute on unix: the text starts with '/'
is_absolute(t) == Len(t) >= 2 /\ t[1] = E

\* Path::components: empty segments (repeated or trailing '/') are skipped, a "."
\* segment is skipped unless it starts a relative path, ".." is ParentDir.
RECURSIVE parse_segments(_, _, _)
parse_segments(t, i, acc) ==
    IF i > Len(t) THEN acc
    ELSE parse_segments(t, i + 1,
            IF t[i] = E THEN acc
            ELSE IF t[i] = Dot THEN (IF i = 1 THEN Append(acc, CurDir) ELSE acc)
            ELSE IF t[i] = DotDot THEN Append(acc, ParentDir)
            ELSE Append(acc, Normal(t[i])))

components(t) ==
    IF is_absolute(t) THEN parse_segments(t, 2, <<RootDir>>)
    ELSE parse_segments(t, 1, <<>>)

\* Component::as_os_str, as a Text
as_os_str(c) == IF c.kind = "RootDir" THEN RootText ELSE <<c.s>>

\* PathBuf::push: an absolute argument replaces the buffer; otherwise a separator
\* is added unless the buffer is empty or already ends with one.
push(buf, p) ==
    IF is_absolute(p) THEN p
    ELSE IF buf # EmptyText /\ buf[Len(buf)] # E THEN buf \o p
    ELSE SubSeq(buf, 1, Len(buf) - 1) \o p

\* PathBuf: FromIterator, and the push loop of naively_normalize_path
RECURSIVE collect_from(_, _, _)
collect_from(cs, i, buf) ==
    IF i > Len(cs) THEN buf
    ELSE collect_from(cs, i + 1, push(buf, as_os_str(cs[i])))

collect(cs) == collect_from(cs, 1, EmptyText)

-----------------------------------------------------------------------------
(* naively_normalize_path *)

is_parent_dir(c) == c.kind = "ParentDir"

\* A plausible slip: the ParentDir arm looks at the previous component of the
\* input instead of the top of the output stack.
RECURSIVE normalize_loop_prev_input(_, _, _)
normalize_loop_prev_input(cs, i, stack) ==
    IF i > Len(cs) THEN stack
    ELSE normalize_loop_prev_input(cs, i + 1,
            IF cs[i].kind = "CurDir" THEN stack
            ELSE IF cs[i].kind = "ParentDir"
                 THEN (IF stack = <<>> \/ (i > 1 /\ is_parent_dir(cs[i - 1]))
                       THEN Append(stack, cs[i])
                       ELSE SubSeq(stack, 1, Len(stack) - 1))
            ELSE Append(stack, cs[i]))

\* the for loop over path.components()
RECURSIVE normalize_loop(_, _, _)
normalize_loop(cs, i, stack) ==
    IF i > Len(cs) THEN stack
    ELSE normalize_loop(cs, i + 1,
            IF cs[i].kind = "CurDir" THEN stack
            ELSE IF cs[i].kind = "ParentDir"
                 THEN (IF stack = <<>> \/ is_parent_dir(stack[Len(stack)])
                       THEN Append(stack, cs[i])
                       ELSE SubSeq(stack, 1, Len(stack) - 1))
            ELSE Append(stack, cs[i]))

normalized_components(t) == normalize_loop(components(t), 1, <<>>)

naively_normalize_path(t) ==
    LET normalized_path == collect(normalized_components(t))
    IN IF normalized_path = EmptyText THEN None ELSE Some(normalized_path)

-----------------------------------------------------------------------------
(* relative_path_from *)

\* A plausible slip: the base components left after the divergence are not
\* climbed.
ParentDirs_none(n) == <<>>

ParentDirs(n) == [k \in 1..n |-> ParentDir]

\* A plausible slip: the common-prefix arm is never taken.
common_prefix_arm_never(common_components, a, b) == FALSE

\* the guard of the arm that skips an equal pair of components
common_prefix_arm(common_components, a, b) == common_components = <<>> /\ a = b

\* A plausible slip: the arm that gives up on a ParentDir of base is missing,
\* so the last arm climbs past it.
RECURSIVE relative_walk_climbs_parent_dir(_, _, _, _)
relative_walk_climbs_parent_dir(d, b, i, common_components) ==
    IF i > Len(d) /\ i > Len(b) THEN Some(collect(common_components))
    ELSE IF i > Len(b)
         THEN Some(collect(common_components \o SubSeq(d, i, Len(d))))
    ELSE IF i > Len(d)
         THEN relative_walk_climbs_parent_dir(d, b, i + 1,
                                              Append(common_components, ParentDir))
    ELSE IF common_prefix_arm(common_components, d[i], b[i])
         THEN relative_walk_climbs_parent_dir(d, b, i + 1, common_components)
    ELSE IF b[i] = CurDir
         THEN relative_walk_climbs_parent_dir(d, b, i + 1,
                                              Append(common_components, d[i]))
    ELSE Some(collect(common_components \o <<ParentDir>> \o ParentDirs(Len(b) - i)
                      \o SubSeq(d, i, Len(d))))

\* the loop over (dst_components.next(), base_path_components.next()); both
\* iterators advance together, so one index serves both
RECURSIVE relative_walk(_, _, _, _)
relative_walk(d, b, i, common_components) ==
    IF i > Len(d) /\ i > Len(b) THEN Some(collect(common_components))
    ELSE IF i > Len(b)
         THEN Some(collect(common_components \o SubSeq(d, i, Len(d))))
    ELSE IF i > Len(d)
         THEN relative_walk(d, b, i + 1, Append(common_components, ParentDir))
    ELSE IF common_prefix_arm(common_components, d[i], b[i])
         THEN relative_walk(d, b, i + 1, common_components)
    ELSE IF b[i] = CurDir
         THEN relative_walk(d, b, i + 1, Append(common_components, d[i]))
    ELSE IF b[i] = ParentDir THEN None
    ELSE Some(collect(common_components \o <<ParentDir>> \o ParentDirs(Len(b) - i)
                      \o SubSeq(d, i, Len(d))))

\* A plausible slip: the rooted/unrooted mismatch is not told apart and the
\* component walk runs on every pair.
relative_path_from_always_walks(d, b) ==
    relative_walk(components(d), components(b), 1, <<>>)

relative_path_from(d, b) ==
    IF is_absolute(b) # is_absolute(d)
    THEN (IF is_absolute(d) THEN Some(d) ELSE None)
    ELSE relative_walk(components(d), components(b), 1, <<>>)

-----------------------------------------------------------------------------
(* Inputs *)

SegPool == {E, Dot, DotDot, A, B}

TextsUpTo(n) == UNION {[1..k -> SegPool] : k \in 1..n}

\* the inputs of the tests of fs.rs, names shortened to one letter
\*   "../case/../tests/../../../of", "./tests/../calculus/calculus-i/../",
\*   "./Calculus/../Calculus I/../../p"
TestTexts ==
    { <<DotDot, A, DotDot, B, DotDot, DotDot, DotDot, C>>,
      <<Dot, A, DotDot, B, C, DotDot, E>>,
      <<Dot, A, DotDot, B, DotDot, DotDot, C>> }

NormInputs == TextsUpTo(MaxSegs) \cup TestTexts

\* the (dst, base) pairs of the tests of fs.rs and of the scenario of the spec
\*   ("../rust", "../rust/../../../"), ("../rust/../../../", "../rust"),
\*   ("/tests/lanoma-profile/common", "/dev/sda/calculus-drive")
TestPairs ==
    { <<<<DotDot, A>>, <<DotDot, A, DotDot, DotDot, DotDot, E>>>>,
      <<<<DotDot, A, DotDot, DotDot, DotDot, E>>, <<DotDot, A>>>>,
      <<<<E, A, B, C>>, <<E, B, A, C>>>> }

PairInputs == (TextsUpTo(MaxPairSegs) \X TextsUpTo(MaxPairSegs)) \cup TestPairs

-----------------------------------------------------------------------------
(* naively_normalize_path, called on an input and then on its own output *)

PathIdle ==
    /\ path = EmptyText
    /\ normalized = None
    /\ renormalized = None
    /\ npc = "idle"

NormInit ==
    /\ path \in NormInputs
    /\ normalized = None
    /\ renormalized = None
    /\ npc = "start"

Normalize ==
    /\ npc = "start"
    /\ normalized' = naively_normalize_path(path)
    /\ npc' = "normalized"
    /\ UNCHANGED <<path, renormalized>>
    /\ UNCHANGED <<relVars, compileVars, masterVars, subjectVars, shelfVars>>

\* the text of a None result is the empty string (Subject::new does the same)
TextOf(opt) == IF opt.some THEN opt.val ELSE EmptyText

Renormalize ==
    /\ npc = "normalized"
    /\ renormalized' = naively_normalize_path(TextOf(normalized))
    /\ npc' = "renormalized"
    /\ UNCHANGED <<path, normalized>>
    /\ UNCHANGED <<relVars, compileVars, masterVars, subjectVars, shelfVars>>

-----------------------------------------------------------------------------
(* relative_path_from, and the result appended to base *)

RelIdle ==
    /\ dst = EmptyText
    /\ base = EmptyText
    /\ rel = None
    /\ joined = None
    /\ rpc = "idle"

RelInit ==
    /\ \E pair \in PairInputs : dst = pair[1] /\ base = pair[2]
    /\ rel = None
    /\ joined = None
    /\ rpc = "start"

Relative ==
    /\ rpc = "start"
    /\ rel' = relative_path_from(dst, base)
    /\ rpc' = (IF rel'.some THEN "related" ELSE "unrelated")
    /\ UNCHANGED <<dst, base, joined>>
    /\ UNCHANGED <<pathVars, compileVars, masterVars, subjectVars, shelfVars>>

Rejoin ==
    /\ rpc = "related"
    /\ joined' = naively_normalize_path(push(base, rel.val))
    /\ rpc' = "joined"
    /\ UNCHANGED <<dst, base, rel>>
    /\ UNCHANGED <<pathVars, compileVars, masterVars, subjectVars, shelfVars>>

-----------------------------------------------------------------------------
(* The Compile command (main.rs) and CompilationEnvironment::compile *)

Min(x, y) == IF x <= y THEN x ELSE y

SeqToSet(q) == {q[k] : k \in 1..Len(q)}

\* `x as i16`
as_i16(x) == ((x + 32768) % 65536) - 32768

\* A plausible slip: the thread count handed to the environment is off by one.
env_thread_count_plus_one(tc) == as_i16(tc + 1)

\* .thread_count(thread_count as i16)
env_thread_count(tc) == as_i16(tc)

\* A plausible slip: the filter lets every environment through.
passes_filter_always(env) == TRUE

\* .filter(|comp_env| !comp_env.compilables.is_empty())
passes_filter(env) == env.compilables # 0

\* A plausible slip: only the notes that compiled are printed.
print_report_compiled_only(i, result) ==
    [some |-> TRUE, env |-> i, compiled |-> result.compiled, failed |-> <<>>]

\* the for_each closure: the lines printed for one CompilationResult, the
\* compiled names and then the failed names, each list in the order it holds
print_report(i, result) ==
    [some |-> TRUE, env |-> i, compiled |-> result.compiled, failed |-> result.failed]

NoReport == [some |-> FALSE, env |-> 0, compiled |-> <<>>, failed |-> <<>>]

\* how one external process can end
Outcomes == {"success", "nonzero", "spawn_failed", "io_error"}

\* A plausible slip: only a non-zero exit counts as a failure, so a unit whose
\* process could not be spawned is in neither list.
compile_result_nonzero_only(ex) ==
    LET slots == [u \in 1..Len(ex) |-> u]
        ok(u) == ex[u] = "success"
        ko(u) == ex[u] = "nonzero"
    IN [compiled |-> SelectSeq(slots, ok), failed |-> SelectSeq(slots, ko)]

\* the result of a batch, from the per-unit positions the workers wrote to: a
\* unit is compiled iff its exit status is a success status, failed otherwise
compile_result(ex) ==
    LET slots == [u \in 1..Len(ex) |-> u]
        ok(u) == ex[u] = "success"
        ko(u) == ex[u] # "success"
    IN [compiled |-> SelectSeq(slots, ok), failed |-> SelectSeq(slots, ko)]

\* the worker pool of one batch: min(thread_count, unit_count)
pool_size(tc, n) == Min(tc, n)

Units(i) == 1..envs[i].compilables

Running == {u \in DOMAIN ustate : ustate[u] = "running"}

NoBatch ==
    /\ pool = 0
    /\ ustate = <<>>
    /\ exit = <<>>

CompileIdle ==
    /\ thread_count = 1
    /\ envs = <<>>
    /\ bi = 1
    /\ cpc = "idle"
    /\ NoBatch
    /\ compile_calls = <<>>
    /\ printed = <<>>
    /\ report = NoReport

\* Input::Notes gives one environment, Input::Subjects one per subject; each
\* holds the number of its compilable units and the thread count
CompileInit ==
    /\ thread_count \in 1..MaxThreads
    /\ \E k \in 1..MaxBatches : \E ns \in [1..k -> 0..MaxUnits] :
          envs = [j \in 1..k |->
                    [compilables |-> ns[j],
                     thread_count |-> env_thread_count(thread_count)]]
    /\ bi = 1
    /\ cpc = "pipeline"
    /\ NoBatch
    /\ compile_calls = <<>>
    /\ printed = <<>>
    /\ report = NoReport

\* the pipeline takes the next environment; the filter drops it when it has no
\* compilable unit
FilterSkip ==
    /\ cpc = "pipeline"
    /\ bi <= Len(envs)
    /\ ~passes_filter(envs[bi])
    /\ bi' = bi + 1
    /\ report' = NoReport
    /\ UNCHANGED <<thread_count, envs, cpc, pool, ustate, exit, compile_calls,
                   printed>>
    /\ UNCHANGED <<pathVars, relVars, masterVars, subjectVars, shelfVars>>

\* comp_env.compile() is entered.  A batch with no unit returns an empty result
\* at once, which main prints.
CompileEnter ==
    /\ cpc = "pipeline"
    /\ bi <= Len(envs)
    /\ passes_filter(envs[bi])
    /\ compile_calls' = Append(compile_calls, bi)
    /\ IF envs[bi].compilables = 0
       THEN /\ report' = print_report(bi, compile_result(<<>>))
            /\ printed' = Append(printed, bi)
            /\ bi' = bi + 1
            /\ pool' = 0
            /\ ustate' = <<>>
            /\ exit' = <<>>
            /\ cpc' = "pipeline"
       ELSE /\ pool' = pool_size(envs[bi].thread_count, envs[bi].compilables)
            /\ ustate' = [u \in Units(bi) |-> "pending"]
            /\ exit' = [u \in Units(bi) |-> "none"]
            /\ report' = NoReport
            /\ cpc' = "compiling"
            /\ UNCHANGED <<bi, printed>>
    /\ UNCHANGED <<thread_count, envs>>
    /\ UNCHANGED <<pathVars, relVars, masterVars, subjectVars, shelfVars>>

\* the batch's working directory cannot be entered: compile returns Err, which
\* .filter_map(|compile_result| compile_result.ok()) drops without a word
BatchFatal ==
    /\ cpc = "compiling"
    /\ \A u \in DOMAIN ustate : ustate[u] = "pending"
    /\ cpc' = "pipeline"
    /\ bi' = bi + 1
    /\ pool' = 0
    /\ ustate' = <<>>
    /\ exit' = <<>>
    /\ UNCHANGED <<thread_count, envs, compile_calls, printed, report>>
    /\ UNCHANGED <<pathVars, relVars, masterVars, subjectVars, shelfVars>>

\* a free worker of the pool takes a unit and starts its external process
Dispatch(u) ==
    /\ cpc = "compiling"
    /\ ustate[u] = "pending"
    /\ Cardinality(Running) < pool
    /\ ustate' = [ustate EXCEPT ![u] = "running"]
    /\ UNCHANGED <<thread_count, envs, bi, cpc, pool, exit, compile_calls, printed,
                   report>>
    /\ UNCHANGED <<pathVars, relVars, masterVars, subjectVars, shelfVars>>

\* the process of a unit ends; its worker writes the result to the unit's own
\* position
ProcessExit(u, outcome) ==
    /\ cpc = "compiling"
    /\ ustate[u] = "running"
    /\ ustate' = [ustate EXCEPT ![u] = "done"]
    /\ exit' = [exit EXCEPT ![u] = outcome]
    /\ UNCHANGED <<thread_count, envs, bi, cpc, pool, compile_calls, printed, report>>
    /\ UNCHANGED <<pathVars, relVars, masterVars, subjectVars, shelfVars>>

\* every unit has ended: compile returns Ok(result) and main prints it
CompileReturn ==
    /\ cpc = "compiling"
    /\ \A u \in DOMAIN ustate : ustate[u] = "done"
    /\ report' = print_report(bi, compile_result(exit))
    /\ printed' = Append(printed, bi)
    /\ bi' = bi + 1
    /\ cpc' = "pipeline"
    /\ UNCHANGED <<thread_count, envs, pool, ustate, exit, compile_calls>>
    /\ UNCHANGED <<pathVars, relVars, masterVars, subjectVars, shelfVars>>

\* the iterator is exhausted: the command returns Ok(())
CompileDone ==
    /\ cpc = "pipeline"
    /\ bi > Len(envs)
    /\ cpc' = "done"
    /\ UNCHANGED <<thread_count, envs, bi, pool, ustate, exit, compile_calls, printed,
                   report>>
    /\ UNCHANGED <<pathVars, relVars, masterVars, subjectVars, shelfVars>>

-----------------------------------------------------------------------------
(* The Master command (main.rs): the parallel filter chain over the subjects *)

\* the directory the program was started in
LaunchDir == 0

\* subject.path_in_shelf(&shelf) of the s-th subject
compilation_dst(s) == s

InFlight == {s \in DOMAIN mpc : mpc[s] \in {"ready", "read", "set", "ran"}}

MasterIdle ==
    /\ subjects = 0
    /\ rayon_threads = 1
    /\ skip_compilation = FALSE
    /\ cwd = LaunchDir
    /\ mpc = <<>>
    /\ original_dir = <<>>
    /\ ran_in = <<>>
    /\ compiled_master_notes = {}

MasterInit ==
    /\ subjects \in 1..MaxSubjects
    /\ rayon_threads \in 1..MaxSubjects
    /\ skip_compilation \in BOOLEAN
    /\ cwd = LaunchDir
    /\ mpc = [s \in 1..subjects |-> "queued"]
    /\ original_dir = [s \in 1..subjects |-> LaunchDir]
    /\ ran_in = [s \in 1..subjects |-> -1]
    /\ compiled_master_notes = {}

\* a rayon worker takes a subject through filter_map and the first filter: the
\* master note is created, has notes and is written, or the subject is dropped
Prepare(s, kept) ==
    /\ mpc[s] = "queued"
    /\ Cardinality(InFlight) < rayon_threads
    /\ mpc' = [mpc EXCEPT ![s] = IF kept THEN "ready" ELSE "dropped"]
    /\ UNCHANGED <<subjects, rayon_threads, skip_compilation, cwd, original_dir,
                   ran_in, compiled_master_notes>>
    /\ UNCHANGED <<pathVars, relVars, compileVars, subjectVars, shelfVars>>

\* if skip_compilation: the last filter returns false
SkipCompilation(s) ==
    /\ mpc[s] = "ready"
    /\ skip_compilation
    /\ mpc' = [mpc EXCEPT ![s] = "done"]
    /\ UNCHANGED <<subjects, rayon_threads, skip_compilation, cwd, original_dir,
                   ran_in, compiled_master_notes>>
    /\ UNCHANGED <<pathVars, relVars, compileVars, subjectVars, shelfVars>>

\* let original_dir = env::current_dir()
ReadCurrentDir(s) ==
    /\ mpc[s] = "ready"
    /\ ~skip_compilation
    /\ original_dir' = [original_dir EXCEPT ![s] = cwd]
    /\ mpc' = [mpc EXCEPT ![s] = "read"]
    /\ UNCHANGED <<subjects, rayon_threads, skip_compilation, cwd, ran_in,
                   compiled_master_notes>>
    /\ UNCHANGED <<pathVars, relVars, compileVars, subjectVars, shelfVars>>

\* env::set_current_dir(&compilation_dst)
SetCurrentDir(s) ==
    /\ mpc[s] = "read"
    /\ cwd' = compilation_dst(s)
    /\ mpc' = [mpc EXCEPT ![s] = "set"]
    /\ UNCHANGED <<subjects, rayon_threads, skip_compilation, original_dir, ran_in,
                   compiled_master_notes>>
    /\ UNCHANGED <<pathVars, relVars, compileVars, subjectVars, shelfVars>>

\* master_note_compilation_cmd.output(): the child process starts in the
\* current directory of the process at that moment
RunCommand(s, success) ==
    /\ mpc[s] = "set"
    /\ ran_in' = [ran_in EXCEPT ![s] = cwd]
    /\ compiled_master_notes' =
           IF success THEN compiled_master_notes \cup {s} ELSE compiled_master_notes
    /\ mpc' = [mpc EXCEPT ![s] = "ran"]
    /\ UNCHANGED <<subjects, rayon_threads, skip_compilation, cwd, original_dir>>
    /\ UNCHANGED <<pathVars, relVars, compileVars, subjectVars, shelfVars>>

\* env::set_current_dir(original_dir)
RestoreCurrentDir(s) ==
    /\ mpc[s] = "ran"
    /\ cwd' = original_dir[s]
    /\ mpc' = [mpc EXCEPT ![s] = "done"]
    /\ UNCHANGED <<subjects, rayon_threads, skip_compilation, original_dir, ran_in,
                   compiled_master_notes>>
    /\ UNCHANGED <<pathVars, relVars, compileVars, subjectVars, shelfVars>>

-----------------------------------------------------------------------------
(* Subject (subjects.rs): characters and strings *)

\* the characters of the names: letters of both cases, the space and two
\* punctuation marks
Lower == {"a", "b", "c", "s", "f"}
Upper == {"A"}
is_lowercase(ch) == ch \in Lower
is_uppercase(ch) == ch \in Upper
is_alphanumeric(ch) == ch \in Lower \cup Upper
to_lowercase(ch) == IF ch = "A" THEN "a" ELSE ch

\* str::trim: white space is taken off both ends
RECURSIVE trim_start(_)
trim_start(seg) ==
    IF seg # E /\ seg[1] = " " THEN trim_start(SubSeq(seg, 2, Len(seg))) ELSE seg

RECURSIVE trim_end(_)
trim_end(seg) ==
    IF seg # E /\ seg[Len(seg)] = " " THEN trim_end(SubSeq(seg, 1, Len(seg) - 1))
    ELSE seg

trim(seg) == trim_end(trim_start(seg))

\* component.as_os_str().to_str().unwrap().trim(): "/" holds no white space
trimmed_os_str(c) == IF c.kind = "RootDir" THEN RootText ELSE <<trim(c.s)>>

\* PathBuf: FromIterator over strings, one push for each
RECURSIVE collect_strings_from(_, _, _)
collect_strings_from(ts, i, buf) ==
    IF i > Len(ts) THEN buf
    ELSE collect_strings_from(ts, i + 1, push(buf, ts[i]))

collect_strings(ts) == collect_strings_from(ts, 1, EmptyText)

-----------------------------------------------------------------------------
(* heck 0.3: str::to_kebab_case *)

\* unicode_words: a character belongs to a word when it is a letter, or a '.'
\* that stands between two letters (UAX #29, rules WB6 and WB7); every other
\* character ends the word
in_word(seg, i) ==
    \/ is_alphanumeric(seg[i])
    \/ /\ seg[i] = "."
       /\ i > 1 /\ i < Len(seg)
       /\ is_alphanumeric(seg[i - 1]) /\ is_alphanumeric(seg[i + 1])

RECURSIVE unicode_words_from(_, _, _, _)
unicode_words_from(seg, i, word, acc) ==
    IF i > Len(seg) THEN (IF word = E THEN acc ELSE Append(acc, word))
    ELSE IF in_word(seg, i)
         THEN unicode_words_from(seg, i + 1, Append(word, seg[i]), acc)
    ELSE unicode_words_from(seg, i + 1, E,
                            IF word = E THEN acc ELSE Append(acc, word))

unicode_words(seg) == unicode_words_from(seg, 1, E, <<>>)

\* the loop of heck's transform over the characters of one word: a new word
\* starts after a lowercase character that an uppercase one follows, and before
\* the last of a run of uppercase characters that a lowercase one follows
RECURSIVE transform_word(_, _, _, _, _)
transform_word(word, i, init, mode, acc) ==
    IF i > Len(word) THEN acc
    ELSE IF i = Len(word) THEN Append(acc, SubSeq(word, init, Len(word)))
    ELSE LET c == word[i]
             next == word[i + 1]
             next_mode == IF is_lowercase(c) THEN "Lowercase"
                          ELSE IF is_uppercase(c) THEN "Uppercase"
                          ELSE mode
         IN IF next_mode = "Lowercase" /\ is_uppercase(next)
            THEN transform_word(word, i + 1, i + 1, "Boundary",
                                Append(acc, SubSeq(word, init, i)))
            ELSE IF mode = "Uppercase" /\ is_uppercase(c) /\ is_lowercase(next)
            THEN transform_word(word, i + 1, i, "Boundary",
                                Append(acc, SubSeq(word, init, i - 1)))
            ELSE transform_word(word, i + 1, init, next_mode, acc)

RECURSIVE transform_words(_, _, _)
transform_words(ws, k, acc) ==
    IF k > Len(ws) THEN acc
    ELSE transform_words(ws, k + 1, transform_word(ws[k], 1, 1, "Boundary", acc))

lowercase(word) == [k \in 1..Len(word) |-> to_lowercase(word[k])]

\* the words in lowercase with one '-' between two of them
RECURSIVE join_kebab(_, _, _)
join_kebab(ws, k, out) ==
    IF k > Len(ws) THEN out
    ELSE join_kebab(ws, k + 1,
                    (IF k = 1 THEN out ELSE Append(out, "-")) \o lowercase(ws[k]))

to_kebab_case(seg) == join_kebab(transform_words(unicode_words(seg), 1, <<>>), 1, E)

-----------------------------------------------------------------------------
(* Subject: new, name, path, split_subjects *)

\* A plausible slip: the components of the raw name are trimmed and collected
\* without being normalized first.
Subject_new_unnormalized(t) ==
    LET cs == components(t)
    IN collect_strings([k \in 1..Len(cs) |-> trimmed_os_str(cs[k])])

\* Subject::new: the value is the text of the `name` field
Subject_new(t) ==
    LET v == naively_normalize_path(t)
    IN IF v.some
       THEN LET cs == components(v.val)
            IN collect_strings([k \in 1..Len(cs) |-> trimmed_os_str(cs[k])])
       ELSE EmptyText

\* Path::file_name: the last component when it is a Normal one
file_name(t) ==
    LET cs == components(t)
    IN IF cs # <<>> /\ cs[Len(cs)].kind = "Normal" THEN Some(cs[Len(cs)].s)
       ELSE None

\* the position of the last '.' of a string, 0 when it has none
RECURSIVE last_dot(_, _)
last_dot(seg, i) ==
    IF i = 0 THEN 0 ELSE IF seg[i] = "." THEN i ELSE last_dot(seg, i - 1)

\* Path::file_stem: the file name up to its last '.', all of it when it has no
\* '.' or only a leading one
file_stem(t) ==
    LET f == file_name(t)
    IN IF ~f.some THEN None
       ELSE LET d == last_dot(f.val, Len(f.val))
            IN IF d <= 1 THEN f ELSE Some(SubSeq(f.val, 1, d - 1))

\* the outcome of a call: a value, or the panic of an unwrap on None
Returned(v) == [panic |-> FALSE, val |-> v]
Panicked == [panic |-> TRUE, val |-> <<>>]
NotCalled == [panic |-> FALSE, val |-> <<"not called">>]

\* Subject::name: file_stem().unwrap()
Subject_name(fn) ==
    LET stem == file_stem(fn)
    IN IF stem.some THEN Returned(stem.val) ELSE Panicked

\* A plausible slip: the Normal components are passed through as they are.
path_component_verbatim(c) == as_os_str(c)

\* the closure of Subject::path: a Normal component becomes kebab-case, every
\* other one keeps its text
path_component(c) ==
    IF c.kind = "Normal" THEN <<to_kebab_case(c.s)>> ELSE as_os_str(c)

\* Subject::path
Subject_path(fn) ==
    LET cs == components(fn)
    IN collect_strings([k \in 1..Len(cs) |-> path_component(cs[k])])

\* Path::ancestors: the path, then what is left each time the last component is
\* taken off; a RootDir is never taken off
ancestors(t) ==
    LET cs == components(t)
        n == Len(cs)
        shortest == IF n > 0 /\ cs[1].kind = "RootDir" THEN 1 ELSE 0
    IN <<t>> \o [k \in 1..(n - shortest) |-> collect(SubSeq(cs, 1, n - k))]

\* Subject::split_subjects
Subject_split_subjects(fn) ==
    LET anc == ancestors(fn)
        all == [k \in 1..Len(anc) |-> Subject_new(anc[k])]
    IN SelectSeq(all, LAMBDA s : s # EmptyText)

-----------------------------------------------------------------------------
(* Subject: the raw names and the calls *)

\* segments of raw names: "A b" ("Semester I"), " a", " ", " ..", "a.b", ".a"
\* (".Logs") and "-"
UpperSpaced == <<"A", " ", "b">>
LeadingSpace == <<" ", "a">>
Blank == <<" ">>
SpacedDotDot == <<" ", ".", ".">>
WithExtension == <<"a", ".", "b">>
LeadingDot == <<".", "a">>
Hyphen == <<"-">>

NameSegPool ==
    {E, Dot, DotDot, A, UpperSpaced, SpacedDotDot, WithExtension, Hyphen}

\* names with a segment that trimming shortens or empties: " a", "a/ a", "a/ "
\* and " "
TrimmedNames ==
    { <<LeadingSpace>>, <<A, LeadingSpace>>, <<A, Blank>>, <<Blank>> }

\* the Normal segments appended and cancelled in the doc example of Subject::new
AbsorbedSegs == {A, UpperSpaced, SpacedDotDot}

\* the names of the tests of subjects.rs, each segment shortened
\*   "Bachelor I/Semester I/Quantum Mechanics/../.",
\*   "Bachelor I/Semester I/Quantum Mechanics/../.Logs",
\*   "../University/Year 1/Semester 1/Computer Engineering"
TestNames ==
    { <<UpperSpaced, UpperSpaced, UpperSpaced, DotDot, Dot>>,
      <<UpperSpaced, UpperSpaced, UpperSpaced, DotDot, LeadingDot>>,
      <<DotDot, A, UpperSpaced, UpperSpaced, UpperSpaced>> }

RawNames ==
    UNION {[1..k -> NameSegPool] : k \in 1..MaxNameSegs} \cup TestNames
        \cup TrimmedNames

NoSubject == <<<<"no subject">>>>

SubjectIdle ==
    /\ raw = EmptyText
    /\ subject = NoSubject
    /\ name_out = NotCalled
    /\ path_out = None
    /\ split_out = None
    /\ reslug_out = None
    /\ absorbed = <<>>
    /\ renewed = None
    /\ spc = "idle"

SubjectInit ==
    /\ raw \in RawNames
    /\ subject = NoSubject
    /\ name_out = NotCalled
    /\ path_out = None
    /\ split_out = None
    /\ reslug_out = None
    /\ absorbed = <<>>
    /\ renewed = None
    /\ spc = "start"

New ==
    /\ spc = "start"
    /\ subject' = Subject_new(raw)
    /\ spc' = "constructed"
    /\ UNCHANGED <<raw, name_out, path_out, split_out, reslug_out, absorbed,
                   renewed>>
    /\ UNCHANGED <<pathVars, relVars, compileVars, masterVars, shelfVars>>

\* subject.name(); a panic ends the process
Name ==
    /\ spc = "constructed"
    /\ name_out = NotCalled
    /\ name_out' = Subject_name(subject)
    /\ spc' = (IF name_out'.panic THEN "aborted" ELSE spc)
    /\ UNCHANGED <<raw, subject, path_out, split_out, reslug_out, absorbed,
                   renewed>>
    /\ UNCHANGED <<pathVars, relVars, compileVars, masterVars, shelfVars>>

\* subject.path()
Path ==
    /\ spc = "constructed"
    /\ ~path_out.some
    /\ path_out' = Some(Subject_path(subject))
    /\ UNCHANGED <<raw, subject, name_out, split_out, reslug_out, absorbed,
                   spc, renewed>>
    /\ UNCHANGED <<pathVars, relVars, compileVars, masterVars, shelfVars>>

\* subject.split_subjects()
SplitSubjects ==
    /\ spc = "constructed"
    /\ ~split_out.some
    /\ split_out' = Some(Subject_split_subjects(subject))
    /\ UNCHANGED <<raw, subject, name_out, path_out, reslug_out, absorbed, spc,
                   renewed>>
    /\ UNCHANGED <<pathVars, relVars, compileVars, masterVars, shelfVars>>

\* Subject::new(the text of subject.path()).path()
Reslug ==
    /\ spc = "constructed"
    /\ path_out.some
    /\ ~reslug_out.some
    /\ reslug_out' = Some(Subject_path(Subject_new(path_out.val)))
    /\ UNCHANGED <<raw, subject, name_out, path_out, split_out, absorbed, spc,
                   renewed>>
    /\ UNCHANGED <<pathVars, relVars, compileVars, masterVars, shelfVars>>

\* Subject::new(subject.full_name())
Renew ==
    /\ spc = "constructed"
    /\ ~renewed.some
    /\ renewed' = Some(Subject_new(subject))
    /\ UNCHANGED <<raw, subject, name_out, path_out, split_out, reslug_out, absorbed,
                   spc>>
    /\ UNCHANGED <<pathVars, relVars, compileVars, masterVars, shelfVars>>

\* Subject::new of the raw name followed by "/c/..", by "/." and by "/"
Absorb(c) ==
    /\ spc = "constructed"
    /\ absorbed = <<>>
    /\ absorbed' = << Subject_new(raw \o <<c, DotDot>>),
                      Subject_new(raw \o <<Dot>>),
                      Subject_new(raw \o <<E>>) >>
    /\ UNCHANGED <<raw, subject, name_out, path_out, split_out, reslug_out,
                   spc, renewed>>
    /\ UNCHANGED <<pathVars, relVars, compileVars, masterVars, shelfVars>>

-----------------------------------------------------------------------------
(* The filesystem: directories and files, each the sequence of names that    *)
(* leads to it from "/"                                                      *)

S == <<"s">>
F == <<"f">>

\* the directory "/" and the directory the program is started in
RootNode == <<>>
CwdNode == RootNode

\* what the operating system does with a path: every component is looked up in
\* the directory reached so far, ".." leads to its parent
RECURSIVE walk(_, _, _, _)
walk(ds, cs, i, cur) ==
    IF i > Len(cs) THEN [found |-> TRUE, node |-> cur]
    ELSE IF cur \notin ds THEN [found |-> FALSE, node |-> cur]
    ELSE walk(ds, cs, i + 1,
              IF cs[i].kind = "Normal" THEN Append(cur, cs[i].s)
              ELSE IF cs[i].kind = "ParentDir"
                   THEN SubSeq(cur, 1, Len(cur) - (IF cur = RootNode THEN 0 ELSE 1))
              ELSE IF cs[i].kind = "RootDir" THEN RootNode
              ELSE cur)

lookup(ds, cs) == walk(ds, cs, 1, CwdNode)

\* A plausible slip: a path counts as a directory when it is there at all.
is_dir_or_file(ds, fls, t) ==
    /\ t # EmptyText
    /\ LET r == lookup(ds, components(t))
       IN r.found /\ r.node \in ds \cup fls

\* Path::is_dir
is_dir(ds, fls, t) ==
    /\ t # EmptyText
    /\ LET r == lookup(ds, components(t)) IN r.found /\ r.node \in ds

\* fs::canonicalize: the absolute text of a path that is there
canonicalize(ds, fls, t) ==
    LET r == lookup(ds, components(t))
    IN IF t # EmptyText /\ r.found /\ r.node \in ds \cup fls
       THEN Some(IF r.node = RootNode THEN RootText ELSE <<E>> \o r.node)
       ELSE None

\* DirBuilder::new().create (mkdir, not recursive): the parent has to be a
\* directory and the name has to be free
mkdir_parent(ds, t) ==
    LET cs == components(t) IN lookup(ds, SubSeq(cs, 1, Len(cs) - 1))

mkdir_succeeds(ds, fls, t) ==
    LET cs == components(t)
        parent == mkdir_parent(ds, t)
    IN /\ cs # <<>>
       /\ cs[Len(cs)].kind = "Normal"
       /\ parent.found
       /\ parent.node \in ds
       /\ Append(parent.node, cs[Len(cs)].s) \notin ds \cup fls

\* the directories after a successful mkdir
mkdir_result(ds, t) ==
    LET cs == components(t)
    IN ds \cup {Append(mkdir_parent(ds, t).node, cs[Len(cs)].s)}

\* A plausible slip: the DirBuilder is made recursive, so that every missing
\* ancestor is created on the way.
RECURSIVE create_all(_, _, _, _)
create_all(ds, cs, i, cur) ==
    IF i > Len(cs) THEN ds
    ELSE LET next == IF cs[i].kind = "Normal" THEN Append(cur, cs[i].s)
                     ELSE IF cs[i].kind = "ParentDir"
                          THEN SubSeq(cur, 1, Len(cur) - (IF cur = RootNode THEN 0 ELSE 1))
                     ELSE IF cs[i].kind = "RootDir" THEN RootNode
                     ELSE cur
         IN create_all(ds \cup {next}, cs, i + 1, next)

create_folder_all(ds, fls, t) ==
    [result |-> "Ok", dirs |-> create_all(ds, components(t), 1, CwdNode)]

\* helpers::fs::create_folder: the result and the directories afterwards (the
\* ValueError arm needs a path that is not UTF-8, and no text of the model is)
create_folder(ds, fls, t) ==
    IF mkdir_succeeds(ds, fls, t)
    THEN [result |-> "Ok", dirs |-> mkdir_result(ds, t)]
    ELSE [result |-> "IoError", dirs |-> ds]

\* node x is node p or lies below it
IsPrefix(p, x) == Len(p) <= Len(x) /\ SubSeq(x, 1, Len(p)) = p

\* the place of node x after the directory src has become the directory target
rebase(x, src, target) == target \o SubSeq(x, Len(src) + 1, Len(x))

\* the node a path names for rename: its last name in its parent directory
rename_node(ds, t) ==
    LET cs == components(t) IN Append(mkdir_parent(ds, t).node, cs[Len(cs)].s)

\* fs::rename (rename(2)): the source has to be there, both paths have to end
\* in a name and the new parent has to be a directory; a directory moves with
\* everything below it, onto a free name or an empty directory, never into
\* itself; a file never replaces a directory
rename_succeeds(ds, fls, from, to) ==
    LET fc == components(from)
        tc == components(to)
        src == lookup(ds, fc)
        parent == mkdir_parent(ds, to)
        target == rename_node(ds, to)
    IN /\ fc # <<>>
       /\ tc # <<>>
       /\ fc[Len(fc)].kind = "Normal"
       /\ tc[Len(tc)].kind = "Normal"
       /\ src.found
       /\ src.node \in ds \cup fls
       /\ parent.found
       /\ parent.node \in ds
       /\ IF src.node \in ds
          THEN \/ target = src.node
               \/ /\ ~IsPrefix(src.node, target)
                  /\ target \notin fls
                  /\ \A x \in ds \cup fls : IsPrefix(target, x) => x = target
          ELSE target \notin ds

\* the directories and the files after a successful rename
rename_result(ds, fls, from, to) ==
    LET src == lookup(ds, components(from)).node
        target == rename_node(ds, to)
        moved(nodes) == {rebase(x, src, target) : x \in {y \in nodes : IsPrefix(src, y)}}
        kept(nodes) == {x \in nodes : ~IsPrefix(src, x) /\ x # target}
    IN [ok |-> TRUE,
        dirs |-> kept(ds) \cup moved(ds),
        files |-> kept(fls) \cup moved(fls)]

rename(ds, fls, from, to) ==
    IF rename_succeeds(ds, fls, from, to) THEN rename_result(ds, fls, from, to)
    ELSE [ok |-> FALSE, dirs |-> ds, files |-> fls]

\* format!("-{}", safety_string), as a path of one segment
safety_suffix(safety_string) == << <<"-">> \o safety_string >>

\* helpers::fs::move_folder: the result and the filesystem afterwards
move_folder(ds, fls, from, to, safety_string) ==
    LET replacement_path == push(to, safety_suffix(safety_string.val))
        first == IF is_dir(ds, fls, to) /\ safety_string.some
                 THEN rename(ds, fls, from, replacement_path)
                 ELSE [ok |-> TRUE, dirs |-> ds, files |-> fls]
        second == rename(first.dirs, first.files, from, to)
    IN IF ~first.ok THEN [result |-> "IoError", dirs |-> ds, files |-> fls]
       ELSE [result |-> (IF second.ok THEN "Ok" ELSE "IoError"),
             dirs |-> second.dirs, files |-> second.files]

-----------------------------------------------------------------------------
(* Shelf (shelf.rs) and the ShelfItem implementation of Subject *)

NoShelf == [made |-> FALSE, path |-> EmptyText]
Shelf_new(root) == [made |-> TRUE, path |-> root]

\* Shelf::is_valid
Shelf_is_valid(ds, fls, sh) == is_dir(ds, fls, sh.path)

\* Shelf::from
Shelf_from(ds, fls, root) ==
    IF ~Shelf_is_valid(ds, fls, Shelf_new(root))
    THEN [result |-> "ValueError", shelf |-> NoShelf]
    ELSE [result |-> "Ok", shelf |-> Shelf_new(root)]

\* A plausible slip: the root is created whether or not it is there.
Shelf_export_always_creates(ds, fls, sh) == create_folder(ds, fls, sh.path)

\* Shelf::export
Shelf_export(ds, fls, sh) ==
    IF ~Shelf_is_valid(ds, fls, sh) THEN create_folder(ds, fls, sh.path)
    ELSE [result |-> "Ok", dirs |-> ds]

\* A plausible slip: the new path is stored before the rename is tried, so it
\* stays stored when the rename fails.
Shelf_set_path_stores_first(ds, fls, sh, to) ==
    LET r == IF Shelf_is_valid(ds, fls, sh) THEN rename(ds, fls, sh.path, to)
             ELSE [ok |-> TRUE, dirs |-> ds, files |-> fls]
    IN [result |-> (IF r.ok THEN "Ok" ELSE "IoError"),
        returned |-> (IF r.ok THEN Some(sh.path) ELSE None),
        shelf |-> Shelf_new(to), dirs |-> r.dirs, files |-> r.files]

\* Shelf::set_path: the result, the path returned, the shelf and the filesystem
\* afterwards
Shelf_set_path(ds, fls, sh, to) ==
    LET old_path == sh.path
        r == IF Shelf_is_valid(ds, fls, sh) THEN rename(ds, fls, old_path, to)
             ELSE [ok |-> TRUE, dirs |-> ds, files |-> fls]
    IN IF ~r.ok
       THEN [result |-> "IoError", returned |-> None, shelf |-> sh,
             dirs |-> ds, files |-> fls]
       ELSE [result |-> "Ok", returned |-> Some(old_path), shelf |-> Shelf_new(to),
             dirs |-> r.dirs, files |-> r.files]

\* Subject::path_in_shelf
path_in_shelf(fn, sh) == push(sh.path, Subject_path(fn))

\* Subject::is_item_valid
is_item_valid(ds, fls, fn, sh) == is_dir(ds, fls, path_in_shelf(fn, sh))

\* A plausible slip: the shelf is not looked at before the folder is made.
Subject_export_unchecked(ds, fls, fn, sh) ==
    IF ~is_item_valid(ds, fls, fn, sh)
    THEN create_folder(ds, fls, path_in_shelf(fn, sh))
    ELSE [result |-> "Ok", dirs |-> ds]

\* Subject::export
Subject_export(ds, fls, fn, sh) ==
    IF ~Shelf_is_valid(ds, fls, sh)
    THEN [result |-> "UnexportedShelfError", dirs |-> ds]
    ELSE IF ~is_item_valid(ds, fls, fn, sh)
    THEN create_folder(ds, fls, path_in_shelf(fn, sh))
    ELSE [result |-> "Ok", dirs |-> ds]

\* Subject::from_shelf
Subject_from_shelf(ds, fls, t, sh) ==
    IF ~is_item_valid(ds, fls, Subject_new(t), sh) THEN "InvalidSubjectError"
    ELSE "Ok"

-----------------------------------------------------------------------------
(* The shelf of a run: where it is made and what is done with it *)

\* shelf roots: "/s", "/c/s" (under a directory that may be missing), "/f" (a
\* file) and the relative "s"
ShelfRoots == { <<E, S>>, <<E, C, S>>, <<E, F>>, <<S>> }

\* the filesystems a run can start in: the file "/f", the directory "/s" or
\* not, subjects below it or not, the directory "/c" or not, and a file where
\* the subject "A b" would go
InitialDirs ==
    { {RootNode},
      {RootNode, <<S>>},
      {RootNode, <<S>>, <<S, A>>},
      {RootNode, <<S>>, <<S, A>>, <<S, A, B>>},
      {RootNode, <<S>>, <<S, A>>, <<C>>} }

InitialFiles(ds) ==
    IF <<S>> \in ds THEN { {<<F>>}, {<<F>>, <<S, <<"a", "-", "b">>>>} }
    ELSE { {<<F>>} }

\* raw subject names: "", ".", "a/..", "a", "a/b", "A b", "../c" and "/c"
ShelfNames ==
    { EmptyText, <<Dot>>, <<A, DotDot>>, <<A>>, <<A, B>>, <<UpperSpaced>>,
      <<DotDot, C>>, <<E, C>> }

\* the paths set_path is given: the shelf roots and "/c"
NewRoots == ShelfRoots \cup { <<E, C>> }

\* the folders move_folder is given: "/s" and "/c"
MovePaths == { <<E, S>>, <<E, C>> }

\* the safety strings move_folder is given: none, or "b"
SafetyStrings == { None, Some(B) }

\* the last operation: its arguments, what it returned, and the shelf and the
\* filesystem it started from
NoOperation ==
    [kind |-> "none", arg |-> EmptyText, to |-> EmptyText, safety |-> None,
     result |-> "Ok", returned |-> None, shelf |-> NoShelf, dirs |-> {},
     files |-> {}]

Done(kind, arg, result) ==
    [kind |-> kind, arg |-> arg, to |-> EmptyText, safety |-> None,
     result |-> result, returned |-> None, shelf |-> shelf, dirs |-> dirs,
     files |-> files]

ShelfIdle ==
    /\ dirs = {RootNode}
    /\ files = {}
    /\ shelf = NoShelf
    /\ cmd = "idle"
    /\ ops = 0
    /\ last = NoOperation

ShelfInit ==
    /\ dirs \in InitialDirs
    /\ files \in InitialFiles(dirs)
    /\ shelf = NoShelf
    /\ cmd = "start"
    /\ ops = 0
    /\ last = NoOperation

\* Shelf::new(root): no look at the filesystem
ShelfNew(root) ==
    /\ cmd = "start"
    /\ shelf' = Shelf_new(root)
    /\ cmd' = "running"
    /\ last' = Done("Shelf::new", root, "Ok")
    /\ UNCHANGED <<dirs, files, ops>>
    /\ UNCHANGED <<pathVars, relVars, compileVars, masterVars, subjectVars>>

\* Shelf::from(root), as the tests call it
ShelfFrom(root) ==
    /\ cmd = "start"
    /\ LET r == Shelf_from(dirs, files, root)
       IN /\ shelf' = r.shelf
          /\ cmd' = (IF r.result = "Ok" THEN "running" ELSE "failed")
          /\ last' = Done("Shelf::from", root, r.result)
    /\ UNCHANGED <<dirs, files, ops>>
    /\ UNCHANGED <<pathVars, relVars, compileVars, masterVars, subjectVars>>

\* parse_from_args with --shelf p: Shelf::from(fs::canonicalize(p)?)?, and only
\* then the command
ParseFromArgs(p) ==
    /\ cmd = "start"
    /\ LET canonical == canonicalize(dirs, files, p)
           r == Shelf_from(dirs, files, canonical.val)
       IN IF ~canonical.some
          THEN /\ shelf' = NoShelf
               /\ cmd' = "failed"
               /\ last' = Done("parse_from_args", p, "IoError")
          ELSE /\ shelf' = r.shelf
               /\ cmd' = (IF r.result = "Ok" THEN "running" ELSE "failed")
               /\ last' = Done("parse_from_args", p, r.result)
    /\ UNCHANGED <<dirs, files, ops>>
    /\ UNCHANGED <<pathVars, relVars, compileVars, masterVars, subjectVars>>

\* shelf.export()
ShelfExport ==
    /\ cmd = "running"
    /\ ops < MaxOps
    /\ ops' = ops + 1
    /\ LET r == Shelf_export(dirs, files, shelf)
       IN /\ dirs' = r.dirs
          /\ last' = Done("Shelf::export", shelf.path, r.result)
    /\ UNCHANGED <<files, shelf, cmd>>
    /\ UNCHANGED <<pathVars, relVars, compileVars, masterVars, subjectVars>>

\* Subject::new(name).export(&shelf)
SubjectExport(name) ==
    /\ cmd = "running"
    /\ ops < MaxOps
    /\ ops' = ops + 1
    /\ LET r == Subject_export(dirs, files, Subject_new(name), shelf)
       IN /\ dirs' = r.dirs
          /\ last' = Done("Subject::export", name, r.result)
    /\ UNCHANGED <<files, shelf, cmd>>
    /\ UNCHANGED <<pathVars, relVars, compileVars, masterVars, subjectVars>>

\* Subject::from_shelf(name, &shelf)
SubjectFromShelf(name) ==
    /\ cmd = "running"
    /\ ops < MaxOps
    /\ ops' = ops + 1
    /\ last' = Done("Subject::from_shelf", name,
                    Subject_from_shelf(dirs, files, name, shelf))
    /\ UNCHANGED <<dirs, files, shelf, cmd>>
    /\ UNCHANGED <<pathVars, relVars, compileVars, masterVars, subjectVars>>

\* shelf.set_path(to)
ShelfSetPath(to) ==
    /\ cmd = "running"
    /\ ops < MaxOps
    /\ ops' = ops + 1
    /\ LET r == Shelf_set_path(dirs, files, shelf, to)
       IN /\ shelf' = r.shelf
          /\ dirs' = r.dirs
          /\ files' = r.files
          /\ last' = [Done("Shelf::set_path", to, r.result)
                        EXCEPT !.returned = r.returned]
    /\ UNCHANGED cmd
    /\ UNCHANGED <<pathVars, relVars, compileVars, masterVars, subjectVars>>

\* helpers::fs::move_folder(from, to, safety_string)
MoveFolder(from, to, safety_string) ==
    /\ cmd = "running"
    /\ ops < MaxOps
    /\ ops' = ops + 1
    /\ LET r == move_folder(dirs, files, from, to, safety_string)
       IN /\ dirs' = r.dirs
          /\ files' = r.files
          /\ last' = [Done("move_folder", from, r.result)
                        EXCEPT !.to = to, !.safety = safety_string]
    /\ UNCHANGED <<shelf, cmd>>
    /\ UNCHANGED <<pathVars, relVars, compileVars, masterVars, subjectVars>>

-----------------------------------------------------------------------------
(* Specifications *)

NormNext == Normalize \/ Renormalize
InitNorm == NormInit /\ RelIdle /\ CompileIdle /\ MasterIdle /\ SubjectIdle
                /\ ShelfIdle
SpecNorm == InitNorm /\ [][NormNext]_vars

RelNext == Relative \/ Rejoin
InitRel == RelInit /\ PathIdle /\ CompileIdle /\ MasterIdle /\ SubjectIdle
                /\ ShelfIdle
SpecRel == InitRel /\ [][RelNext]_vars

CompileNext ==
    \/ FilterSkip
    \/ CompileEnter
    \/ BatchFatal
    \/ \E u \in DOMAIN ustate : Dispatch(u)
    \/ \E u \in DOMAIN ustate : \E outcome \in Outcomes : ProcessExit(u, outcome)
    \/ CompileReturn
    \/ CompileDone
InitCompile == CompileInit /\ PathIdle /\ RelIdle /\ MasterIdle /\ SubjectIdle
                /\ ShelfIdle
SpecCompile == InitCompile /\ [][CompileNext]_vars

MasterNext ==
    \/ \E s \in DOMAIN mpc : \E kept \in BOOLEAN : Prepare(s, kept)
    \/ \E s \in DOMAIN mpc : SkipCompilation(s)
    \/ \E s \in DOMAIN mpc : ReadCurrentDir(s)
    \/ \E s \in DOMAIN mpc : SetCurrentDir(s)
    \/ \E s \in DOMAIN mpc : \E success \in BOOLEAN : RunCommand(s, success)
    \/ \E s \in DOMAIN mpc : RestoreCurrentDir(s)
InitMaster == MasterInit /\ PathIdle /\ RelIdle /\ CompileIdle /\ SubjectIdle
                /\ ShelfIdle
SpecMaster == InitMaster /\ [][MasterNext]_vars

SubjectNext ==
    \/ New
    \/ Name
    \/ Path
    \/ SplitSubjects
    \/ Reslug
    \/ Renew
    \/ \E c \in AbsorbedSegs : Absorb(c)
InitSubject == SubjectInit /\ PathIdle /\ RelIdle /\ CompileIdle /\ MasterIdle
                /\ ShelfIdle
SpecSubject == InitSubject /\ [][SubjectNext]_vars

ShelfNext ==
    \/ \E root \in ShelfRoots : ShelfNew(root)
    \/ \E root \in ShelfRoots : ShelfFrom(root)
    \/ \E p \in ShelfRoots : ParseFromArgs(p)
    \/ ShelfExport
    \/ \E name \in ShelfNames : SubjectExport(name)
    \/ \E name \in ShelfNames : SubjectFromShelf(name)
    \/ \E to \in NewRoots : ShelfSetPath(to)
    \/ \E from \in MovePaths, to \in MovePaths, safety_string \in SafetyStrings :
           MoveFolder(from, to, safety_string)
InitShelf == ShelfInit /\ PathIdle /\ RelIdle /\ CompileIdle /\ MasterIdle
                /\ SubjectIdle
SpecShelf == InitShelf /\ [][ShelfNext]_vars

-----------------------------------------------------------------------------
(* Claims about the path helpers *)

\* a path is normalized when naively_normalize_path returns it unchanged
IsNormalized(t) == naively_normalize_path(t) = Some(t)

HasParentDir(cs) == \E i \in 1..Len(cs) : cs[i] = ParentDir

\* C2: for normalized dst and base, whenever relative_path_from(dst, base) is
\* Some(r), base with r appended normalizes to the same path as dst.
C2_RelativeLeadsFromBaseToDst ==
    (rpc = "joined" /\ IsNormalized(dst) /\ IsNormalized(base))
        => joined = naively_normalize_path(dst)

\* C3: normalizing the text of a normalization result gives that result again,
\* and a None result stays None.
C3_NormalizeIdempotent ==
    npc = "renormalized" => renormalized = normalized

\* C3 witness: an input that normalization changed (a ParentDir was cancelled)
\* has been normalized twice.
C3_Witness ==
    /\ npc = "renormalized"
    /\ normalized.some
    /\ HasParentDir(components(path))
    /\ Len(normalized_components(path)) < Len(components(path))

\* C4: a Some result of naively_normalize_path holds no CurDir (nor a "."
\* segment), and each ParentDir in it is the first component of a relative path
\* or directly follows another ParentDir; for "../a/../b/../../../c" the result
\* is "../../../c".
C4_NormalizedShape ==
    (npc # "start" /\ normalized.some) =>
        LET t == normalized.val
            cs == components(t)
        IN /\ \A i \in 1..Len(t) : t[i] # Dot
           /\ \A i \in 1..Len(cs) :
                /\ cs[i] # CurDir
                /\ cs[i] = ParentDir =>
                      \/ i = 1
                      \/ cs[i - 1] = ParentDir
           /\ (path = <<DotDot, A, DotDot, B, DotDot, DotDot, DotDot, C>>
                 => t = <<DotDot, DotDot, DotDot, C>>)

\* C4 witness: the scenario input has been normalized, ParentDir components
\* surviving in front of a Named one.
C4_Witness ==
    /\ npc = "normalized"
    /\ path = <<DotDot, A, DotDot, B, DotDot, DotDot, DotDot, C>>
    /\ normalized = Some(<<DotDot, DotDot, DotDot, C>>)

\* C5: relative_path_from(p, p) is Some(empty path) for every normalized p.
C5_RelativeToSelfIsEmpty ==
    (rpc # "start" /\ dst = base /\ IsNormalized(dst)) => rel = Some(EmptyText)

\* C5 witness: relative_path_from has run on (p, p) for a normalized p that
\* starts with a ParentDir and goes on with a Named component.
C5_Witness ==
    /\ rpc = "related"
    /\ dst = base
    /\ dst = <<DotDot, A>>
    /\ rel = Some(EmptyText)

\* C6: when exactly one of dst and base is absolute, relative_path_from gives
\* None if dst is the relative one and Some(dst), the text unchanged, otherwise.
C6_RootedMismatch ==
    (rpc # "start" /\ is_absolute(dst) # is_absolute(base)) =>
        rel = (IF is_absolute(dst) THEN Some(dst) ELSE None)

\* C6 witness: both outcomes of a mismatch are reachable; this one is the
\* relative dst against an absolute base.
C6_Witness ==
    /\ rpc = "unrelated"
    /\ ~is_absolute(dst)
    /\ is_absolute(base)
    /\ Len(components(dst)) >= 1
    /\ Len(components(base)) >= 2
-----------------------------------------------------------------------------
(* Claims about the Compile and Master commands *)

Occurrences(q, x) == Cardinality({k \in 1..Len(q) : q[k] = x})

C7_CompiledIffOwnSuccess ==
    report.some =>
        \A u \in 1..envs[report.env].compilables :
            /\ exit[u] \in Outcomes
            /\ (u \in SeqToSet(report.compiled)) <=> (exit[u] = "success")
            /\ (u \in SeqToSet(report.failed)) <=> (exit[u] # "success")

\* C7 witness: one unit failed with a non-zero exit, another could not be
\* spawned, and the unit between them still compiled.
C7_Witness ==
    /\ report.some
    /\ envs[report.env].compilables >= 3
    /\ exit[1] = "nonzero"
    /\ exit[2] = "success"
    /\ exit[3] = "spawn_failed"
    /\ report.failed = <<1, 3>>
    /\ report.compiled = <<2>>

C9_EmptyBatchSkipped ==
    /\ \A k \in 1..Len(compile_calls) : envs[compile_calls[k]].compilables # 0
    /\ \A i \in 1..Len(envs) :
          i < bi => ((i \in SeqToSet(compile_calls)) <=> (envs[i].compilables # 0))
    /\ (cpc = "compiling" => envs[bi].compilables # 0)

\* C9 witness: the command has ended after an empty first batch and a second
\* batch that was compiled and printed.
C9_Witness ==
    /\ cpc = "done"
    /\ Len(envs) = 2
    /\ envs[1].compilables = 0
    /\ envs[2].compilables >= 2
    /\ compile_calls = <<2>>
    /\ printed = <<2>>

\* C10: every command of the Master command starts in the directory of its own
\* subject, whatever the interleaving of the workers.
C10_CommandRunsInOwnDir ==
    \A s \in DOMAIN ran_in : ran_in[s] # -1 => ran_in[s] = compilation_dst(s)

-----------------------------------------------------------------------------
(* Claims about Subject *)

\* the last component of a path text
LastComponent(t) == LET cs == components(t) IN cs[Len(cs)]

\* the entities of the prefixes of a component sequence, longest first, without
\* those whose full name is empty
PrefixSubjects(cs) ==
    SelectSeq([k \in 1..Len(cs) |->
                  Subject_new(collect(SubSeq(cs, 1, Len(cs) + 1 - k)))],
              LAMBDA s : s # EmptyText)

\* C11: name() returns the last segment of full_name exactly as it stands:
\* case, spacing and every character of it, a '.' inside it included.
C11_NameIsLastSegmentVerbatim ==
    (name_out # NotCalled /\ ~name_out.panic)
        => name_out.val = LastComponent(subject).s

\* C12: split_subjects() of an entity with a non-empty full_name returns the
\* entity itself first, then every strict prefix of its segments from the
\* longest to the shortest, each built by Subject::new and those with an empty
\* full_name left out; a leading ".." is the last element.
C12_SplitIsSelfThenPrefixes ==
    (split_out.some /\ subject # EmptyText)
        => LET cs == components(subject)
           IN /\ split_out.val = PrefixSubjects(cs)
              /\ split_out.val # <<>>
              /\ components(split_out.val[1]) = cs
              /\ cs[1] = ParentDir
                    => split_out.val[Len(split_out.val)] = <<DotDot>>

\* C13: for a raw name x that normalizes to a non-empty path and a Normal
\* segment c, Subject::new of x/c/.., of x/. and of x/ has the same full_name,
\* name() and path() as Subject::new(x).
C13_NewAbsorbsRedundantSyntax ==
    (absorbed # <<>> /\ naively_normalize_path(raw).some)
        => \A k \in 1..Len(absorbed) :
              /\ absorbed[k] = subject
              /\ Subject_name(absorbed[k]) = Subject_name(subject)
              /\ Subject_path(absorbed[k]) = Subject_path(subject)

\* C13 witness: the three variants have been built for a name of two Normal
\* segments that construction changes (a segment is trimmed).
C13_Witness ==
    /\ absorbed # <<>>
    /\ raw = <<A, LeadingSpace>>
    /\ subject = <<A, A>>

\* C14 as stated: path() has one segment for each segment of full_name, in the
\* same order: the kebab-case slug of a Normal segment, and a RootDir or
\* ParentDir segment as it is.
C14_PathMapsSegmentBySegment ==
    path_out.some
        => LET cs == components(subject)
               ps == components(path_out.val)
           IN /\ Len(ps) = Len(cs)
              /\ \A k \in 1..Len(cs) :
                    ps[k] = (IF cs[k].kind = "Normal"
                             THEN Normal(to_kebab_case(cs[k].s)) ELSE cs[k])

\* the components that path() keeps: all but the Normal ones whose slug is empty
SluggedComponents(cs) ==
    SelectSeq(cs, LAMBDA c : c.kind = "Normal" => to_kebab_case(c.s) # E)

\* C14 amended: path() maps the segments of full_name in order, a Normal segment
\* to its kebab-case slug and a RootDir or ParentDir segment to itself, and a
\* Normal segment whose slug is empty (it holds no letter) gives no segment.
C14_PathMapsSluggedSegments ==
    path_out.some
        => LET kept == SluggedComponents(components(subject))
               ps == components(path_out.val)
           IN /\ Len(ps) = Len(kept)
              /\ \A k \in 1..Len(kept) :
                    ps[k] = (IF kept[k].kind = "Normal"
                             THEN Normal(to_kebab_case(kept[k].s)) ELSE kept[k])

\* C14 witness: path() has been taken of "../a/A b" and is "../a/a-b".
C14_Witness ==
    /\ subject = <<DotDot, A, UpperSpaced>>
    /\ path_out = Some(<<DotDot, A, <<"a", "-", "b">>>>)

\* C15: an entity built from the text of path() has the same path() again.
C15_SlugIdempotent ==
    reslug_out.some => components(reslug_out.val) = components(path_out.val)

-----------------------------------------------------------------------------
(* Claims about Shelf and the subjects on it *)

\* a path text names an existing directory of the filesystem ds
ExistingDirectory(ds, t) ==
    /\ t # EmptyText
    /\ LET r == lookup(ds, components(t)) IN r.found /\ r.node \in ds

\* the directory a path text is to be created in is missing
ParentMissing(ds, t) ==
    LET cs == components(t)
        r == lookup(ds, SubSeq(cs, 1, Len(cs) - 1))
    IN cs = <<>> \/ ~r.found \/ r.node \notin ds

\* C16: Shelf::from(root) returns a shelf exactly when root is an existing
\* directory at the time of the call; for a missing path and for a file it
\* returns an error, and then the command fails without having run anything.
C16_ShelfFromIffDirectory ==
    /\ last.kind = "Shelf::from"
          => /\ last.result = "Ok" <=> ExistingDirectory(last.dirs, last.arg)
             /\ shelf.made <=> last.result = "Ok"
    /\ last.kind = "parse_from_args"
          => /\ last.result = "Ok" <=> ExistingDirectory(last.dirs, last.arg)
             /\ shelf.made <=> last.result = "Ok"
             /\ cmd = (IF last.result = "Ok" THEN "running" ELSE "failed")
    /\ cmd = "failed"
          => /\ last.kind \in {"Shelf::from", "parse_from_args"}
             /\ ~shelf.made
             /\ dirs = last.dirs

\* C16 witness: parse_from_args has failed on a root that is a file.
C16_Witness ==
    /\ last.kind = "parse_from_args"
    /\ last.arg = <<E, F>>
    /\ last.result = "ValueError"
    /\ cmd = "failed"

\* C17: Shelf::export creates at most the root directory itself: if it returns
\* Ok the root is an existing directory afterwards; on a valid shelf it returns
\* Ok and changes nothing; when the parent of the root is missing it returns an
\* I/O error and changes nothing.
C17_ShelfExportCreatesOnlyRoot ==
    last.kind = "Shelf::export"
        => /\ last.result = "Ok" => ExistingDirectory(dirs, shelf.path)
           /\ ExistingDirectory(last.dirs, shelf.path)
                 => last.result = "Ok" /\ dirs = last.dirs
           /\ ParentMissing(last.dirs, shelf.path)
                 => last.result = "IoError" /\ dirs = last.dirs
           /\ last.dirs \subseteq dirs
           /\ \A d \in dirs \ last.dirs :
                 /\ lookup(dirs, components(shelf.path)).node = d
                 /\ SubSeq(d, 1, Len(d) - 1) \in last.dirs
           /\ files = last.files

\* C17 witness: an export has just created the root "/s" in "/".
C17_Witness ==
    /\ last.kind = "Shelf::export"
    /\ last.result = "Ok"
    /\ <<S>> \notin last.dirs
    /\ <<S>> \in dirs

\* C18: Subject::export returns UnexportedShelfError and changes nothing when
\* the shelf root is not an existing directory; otherwise, if it returns Ok the
\* directory of the subject exists afterwards, and for a subject whose directory
\* exists already it returns Ok and changes nothing.
C18_SubjectExport ==
    last.kind = "Subject::export"
        => LET resolved == path_in_shelf(Subject_new(last.arg), shelf)
           IN IF ~ExistingDirectory(last.dirs, shelf.path)
              THEN last.result = "UnexportedShelfError" /\ dirs = last.dirs
              ELSE /\ last.result # "UnexportedShelfError"
                   /\ last.result = "Ok" => ExistingDirectory(dirs, resolved)
                   /\ ExistingDirectory(last.dirs, resolved)
                         => last.result = "Ok" /\ dirs = last.dirs

\* C18 witness: the subject "A b" did not exist and exists after its export.
C18_Witness ==
    /\ last.kind = "Subject::export"
    /\ last.arg = <<UpperSpaced>>
    /\ last.result = "Ok"
    /\ dirs # last.dirs
    /\ <<S, <<"a", "-", "b">>>> \in dirs

\* C19: Subject::from_shelf returns an error, on every shelf, for a name that
\* normalizes to the empty path; such a name is never taken for the shelf root
\* and accepted.
C19_EmptyNameRejected ==
    (last.kind = "Subject::from_shelf" /\ ~naively_normalize_path(last.arg).some)
        => last.result # "Ok"

-----------------------------------------------------------------------------
(* A claim about all of Subject's accessors *)

\* C20: name() returns a value for every entity Subject::new can build; the
\* process is never aborted by a panic.
C20_NothingPanics ==
    ~name_out.panic /\ spc # "aborted"

-----------------------------------------------------------------------------
(* More claims about relative_path_from *)

\* the number of leading positions at which d and b hold the same component
RECURSIVE CommonPrefixLen(_, _, _)
CommonPrefixLen(d, b, i) ==
    IF i <= Len(d) /\ i <= Len(b) /\ d[i] = b[i] THEN CommonPrefixLen(d, b, i + 1)
    ELSE i - 1

HasCurDir(cs) == \E i \in 1..Len(cs) : cs[i] = CurDir

Climb(n) == [k \in 1..n |-> ParentDir]

\* C21: for dst and base of the same rootedness, without a CurDir component,
\* with a common prefix of k components and no ParentDir in base after it,
\* relative_path_from gives one ParentDir per base component after the prefix
\* followed by the dst components after the prefix, in order.
C21_ClimbThenDescend ==
    LET d == components(dst)
        b == components(base)
        k == CommonPrefixLen(d, b, 1)
    IN (/\ rpc # "start"
        /\ is_absolute(dst) = is_absolute(base)
        /\ ~HasCurDir(d)
        /\ ~HasCurDir(b)
        /\ ~HasParentDir(SubSeq(b, k + 1, Len(b))))
       => rel = Some(collect(Climb(Len(b) - k) \o SubSeq(d, k + 1, Len(d))))

\* C21 witness: relative_path_from has run on a pair that shares one component,
\* with two base components to climb and one dst component to descend into.
C21_Witness ==
    /\ rpc = "related"
    /\ dst = <<A, B>>
    /\ base = <<A, A, B>>
    /\ rel = Some(<<DotDot, DotDot, B>>)

\* C22: for dst and base of the same rootedness, when the first position at
\* which they differ holds a ParentDir in base and a component in dst, the
\* result is None.
C22_ParentDirAtDivergenceIsNone ==
    LET d == components(dst)
        b == components(base)
        k == CommonPrefixLen(d, b, 1)
    IN (/\ rpc # "start"
        /\ is_absolute(dst) = is_absolute(base)
        /\ k < Len(d)
        /\ k < Len(b)
        /\ b[k + 1] = ParentDir)
       => rel = None

\* C22 witness: relative_path_from has run on dst "./" and base "../a", which
\* differ at the first position, where base holds a ParentDir.
C22_Witness ==
    /\ rpc = "unrelated"
    /\ dst = <<Dot, E>>
    /\ base = <<DotDot, A>>
    /\ rel = None

\* C23: when the first position at which dst and base differ holds a CurDir in
\* base and a component in dst, and relative_path_from gives Some(r), base with
\* r appended normalizes to the same path as dst.
C23_CurDirAtDivergenceStillLeads ==
    LET d == components(dst)
        b == components(base)
        k == CommonPrefixLen(d, b, 1)
    IN (/\ rpc = "joined"
        /\ is_absolute(dst) = is_absolute(base)
        /\ k < Len(d)
        /\ k < Len(b)
        /\ b[k + 1] = CurDir)
       => joined = naively_normalize_path(dst)
-----------------------------------------------------------------------------
(* More claims about naively_normalize_path, Subject::new and Master *)

\* C27: every rooted input of naively_normalize_path has a rooted Some result:
\* the RootDir component is never removed.
C27_RootedStaysRooted ==
    (npc \in {"normalized", "renormalized"} /\ is_absolute(path))
        => (normalized.some /\ is_absolute(normalized.val))

\* C28: Subject::new applied to the full name of Subject::new(x) gives the same
\* full name again, for every raw name x.
C28_NewIdempotent ==
    renewed.some => renewed.val = subject

\* C30: when every subject of the Master command is through the filter chain,
\* the current directory of the process is the directory it was started in.
C30_CurrentDirRestored ==
    (subjects > 0 /\ \A s \in 1..subjects : mpc[s] \in {"done", "dropped"})
        => cwd = LaunchDir
-----------------------------------------------------------------------------
(* More claims about the shelf and the filesystem *)

\* the node a path text leads to
NodeOf(ds, t) == lookup(ds, components(t)).node

\* what is at node n and below it, each entry by its place relative to n
Below(nodes, n) == {SubSeq(x, Len(n) + 1, Len(x)) : x \in {y \in nodes : IsPrefix(n, y)}}

\* C24: Shelf::set_path(to) returns Ok or an I/O error. On Ok the stored root is
\* `to` and the previous root is returned; on an error the stored root and the
\* filesystem are as before, and the shelf was valid. On a shelf that is not
\* valid it returns Ok and leaves the filesystem alone; on a valid shelf an Ok
\* means the directory, with everything below it, is now at `to`.
C24_SetPathStoresIffOk ==
    last.kind = "Shelf::set_path"
        => LET valid == ExistingDirectory(last.dirs, last.shelf.path)
               old == NodeOf(last.dirs, last.shelf.path)
               new == NodeOf(dirs, last.arg)
           IN /\ last.result \in {"Ok", "IoError"}
              /\ last.result = "Ok"
                    => /\ shelf.path = last.arg
                       /\ last.returned = Some(last.shelf.path)
              /\ last.result = "IoError"
                    => /\ valid
                       /\ shelf = last.shelf
                       /\ dirs = last.dirs
                       /\ files = last.files
              /\ ~valid
                    => /\ last.result = "Ok"
                       /\ dirs = last.dirs
                       /\ files = last.files
              /\ (valid /\ last.result = "Ok")
                    => /\ ExistingDirectory(dirs, last.arg)
                       /\ Below(dirs \cup files, new)
                              = Below(last.dirs \cup last.files, old)
                       /\ new # old => old \notin dirs

\* C24 witness: set_path has failed on a valid shelf, the new root being a file
\* or lying in a directory that is missing.
C24_Witness ==
    /\ last.kind = "Shelf::set_path"
    /\ last.result = "IoError"
    /\ ExistingDirectory(last.dirs, last.shelf.path)
    /\ last.arg # last.shelf.path

\* what Subject::export leaves behind, whatever it was given
C25_AfterExport ==
    last.kind = "Subject::export"
        => LET resolved == path_in_shelf(Subject_new(last.arg), last.shelf)
           IN /\ (ExistingDirectory(last.dirs, last.shelf.path)
                     /\ ParentMissing(last.dirs, resolved))
                    => last.result = "IoError" /\ dirs = last.dirs
              /\ last.dirs \subseteq dirs
              /\ Cardinality(dirs \ last.dirs) <= 1
              /\ \A d \in dirs \ last.dirs : SubSeq(d, 1, Len(d) - 1) \in last.dirs
              /\ files = last.files

\* the first member of a subject chain is exported to a valid shelf in which
\* no file has its place: it succeeds and exists afterwards
C25_FirstMember ==
    LET fn == Subject_new(last.arg)
        resolved == path_in_shelf(fn, last.shelf)
    IN (/\ last.kind = "Subject::export"
        /\ Subject_split_subjects(fn) = <<fn>>
        /\ ExistingDirectory(last.dirs, last.shelf.path)
        /\ NodeOf(last.dirs, resolved) \notin last.files)
       => /\ last.result = "Ok"
          /\ ExistingDirectory(dirs, resolved)

\* the next member of a subject chain is exported right after its parent was:
\* it succeeds, and both exist afterwards
C25_NextMember ==
    LET fn == Subject_new(last'.arg)
        parent == Subject_new(last.arg)
    IN (/\ last.kind = "Subject::export"
        /\ last.result = "Ok"
        /\ last'.kind = "Subject::export"
        /\ Subject_split_subjects(fn) = <<fn, parent>>
        /\ Subject_split_subjects(parent) = <<parent>>)
       => /\ last'.result = "Ok"
          /\ ExistingDirectory(dirs', path_in_shelf(fn, shelf'))
          /\ ExistingDirectory(dirs', path_in_shelf(parent, shelf'))

\* C25: Subject::export never creates an ancestor directory: on a valid shelf,
\* the export of a subject whose parent directory is missing returns an I/O
\* error and creates nothing, and no export creates more than one directory,
\* always in a directory that was there; the members of a subject chain
\* exported shortest-first all succeed and all exist afterwards.
C25_ExportNeverCreatesAncestor ==
    [](C25_AfterExport /\ C25_FirstMember) /\ [][C25_NextMember]_vars

\* C25 witness: on a valid shelf the export of "a/b" has failed because the
\* directory of "a" is missing.
C25_Witness ==
    /\ last.kind = "Subject::export"
    /\ last.arg = <<A, B>>
    /\ last.result = "IoError"
    /\ ExistingDirectory(last.dirs, last.shelf.path)
    /\ ParentMissing(last.dirs, path_in_shelf(Subject_new(last.arg), last.shelf))

\* C26: after move_folder(from, to, Some(s)) with `to` an existing directory
\* and `from` another one, what was at `from` is at `to`, what was at `to` is at
\* the name of `to` with "-s" appended, and nothing is at `from`.
C26_MoveFolderKeepsDestination ==
    LET f == NodeOf(last.dirs, last.arg)
        t == NodeOf(last.dirs, last.to)
        kept == SubSeq(t, 1, Len(t) - 1)
                    \o << t[Len(t)] \o <<"-">> \o last.safety.val >>
    IN (/\ last.kind = "move_folder"
        /\ last.safety.some
        /\ ExistingDirectory(last.dirs, last.arg)
        /\ ExistingDirectory(last.dirs, last.to)
        /\ ~IsPrefix(f, t)
        /\ ~IsPrefix(t, f))
       => /\ Below(dirs \cup files, t) = Below(last.dirs \cup last.files, f)
          /\ Below(dirs \cup files, kept) = Below(last.dirs \cup last.files, t)
          /\ f \notin dirs

\* the components of a path after normalization, none for a None result
NormalizedComponents(t) ==
    LET n == naively_normalize_path(t) IN IF n.some THEN components(n.val) ELSE <<>>

\* C29: for every raw name and every shelf, path_in_shelf starts with the shelf
\* root and, normalized, still lies at or below the normalized root; nothing is
\* created outside the shelf by an export.
C29_ResolvesInsideShelf ==
    last.kind \in {"Subject::export", "Subject::from_shelf"}
        => LET resolved == path_in_shelf(Subject_new(last.arg), last.shelf)
               root == last.shelf.path
           IN /\ IsPrefix(components(root), components(resolved))
              /\ IsPrefix(NormalizedComponents(root), NormalizedComponents(resolved))
              /\ \A d \in dirs \ last.dirs : IsPrefix(NodeOf(last.dirs, root), d)
====
